---- MODULE Spec2Model ----
(***************************************************************************)
(* A model of the terminal text editor of src/kilo.c.                      *)
(*                                                                         *)
(* Bytes are integers (their ASCII codes), strings are sequences of bytes. *)
(* The global struct editorConfig E is the record variable E; a row (erow) *)
(* is a record [chars, render, rsize]; its C field size is the length of   *)
(* chars.  Row and byte indices are 0-based in the                         *)
(* code and 1-based in the sequences, so E.row[i] of the code is           *)
(* E.row[i + 1] here.                                                      *)
(*                                                                         *)
(* One step of the model is one iteration of a read loop: the handler of   *)
(* the key that editorReadKey() returned, run to its end, followed by the  *)
(* editorRefreshScreen() (hence editorScroll()) that the loop runs before  *)
(* it blocks in the next read.  Every state with pc = "loop" or            *)
(* pc = "prompt" is therefore a state in which the process waits for input *)
(* with the frame of that state on the screen.                             *)
(***************************************************************************)
EXTENDS Integers, Sequences, FiniteSets, TLC

VARIABLES
    pc,          \* "start" | "loop" | "prompt" | "exit"
    E,           \* struct editorConfig E
    quit_times,  \* static int quit_times of editorProcessKeypress
    pbuf,        \* editorPrompt: the C string held in buffer
    plen,        \* editorPrompt: buffer_len
    argv,        \* main: <<>> with no file argument, <<name>> with one
    ws,          \* the terminal's size <<rows, cols>>, <<0, 0>> if unknown
    term,        \* the terminal: its attribute mode and what its screen shows
    disk,        \* content of the file the editor opens and saves
    exitcode,    \* status passed to exit(), -1 while the process runs
    inq,         \* bytes waiting in the terminal's input queue
    key,         \* the value the last editorReadKey() call returned
    seq          \* the bytes that call consumed

vars == <<pc, E, quit_times, pbuf, plen, argv, ws, term, disk, exitcode, inq, key, seq>>

-----------------------------------------------------------------------------
(* Program constants.                                                      *)

TAB_STOP == 8
QUIT_TIMES == 3
BACKSPACE == 127
ARROW_LEFT == 1000
ARROW_RIGHT == 1001
ARROW_UP == 1002
ARROW_DOWN == 1003
PAGE_UP == 1004
PAGE_DOWN == 1005
HOME_KEY == 1006
END_KEY == 1007
DEL_KEY == 1008

\* CTRL_KEY(k) is k & 0x1f: the low five bits of the byte.
CTRL_KEY(k) == k % 32

ESC == 27
CR == 13
NL == 10
TAB == 9
SPACE == 32

\* A null char pointer (E.filename before a name is known; editorPrompt's
\* result on Escape).  No string holds a negative byte.
NULL == <<-1>>

\* disk when the file does not exist.
NoFile == <<-2>>

\* disk after a save that failed in ftruncate() or write(): the file exists
\* and its content is whatever the failed call left.
Unspecified == <<-3>>

-----------------------------------------------------------------------------
(* Bounds of the model.                                                    *)

\* Most rows the buffer holds.
MaxRows == 2
\* Most bytes the rows of the buffer hold together.
MaxChars == 2
\* Most bytes typed into the save-as prompt.
MaxPrompt == 1
\* Most bytes of the file given on the command line.
MaxFile == 2
\* E.dirty counts mutations; the code reads it only as zero or non-zero, and
\* the model stops counting here.
MaxDirty == 1
\* Most bytes waiting in the terminal's input queue (decoder specification).
MaxIn == 4
\* Most bytes that follow an ESC typed in one burst (decoder on whole
\* sequences).
MaxSeq == 3
\* Most rows inserted, and most bytes of an inserted row (editing
\* operations alone).
MaxOpRows == 3
MaxRowLen == 3
\* Most bytes the inserted rows hold together.
MaxOpChars == 4

-----------------------------------------------------------------------------
(* Helpers on sequences.                                                   *)

Min(a, b) == IF a < b THEN a ELSE b

Spaces(n) == [k \in 1..n |-> SPACE]

InsertAt(s, i, x) == SubSeq(s, 1, i) \o <<x>> \o SubSeq(s, i + 1, Len(s))

RemoveAt(s, i) == SubSeq(s, 1, i) \o SubSeq(s, i + 2, Len(s))

RECURSIVE SeqSum(_)
SeqSum(s) == IF s = <<>> THEN 0 ELSE Head(s) + SeqSum(Tail(s))

RECURSIVE Concat(_)
Concat(ss) == IF ss = <<>> THEN <<>> ELSE Head(ss) \o Concat(Tail(ss))

\* All sequences over S of length at most n.
SeqsUpTo(S, n) == UNION {[1..k -> S] : k \in 0..n}

-----------------------------------------------------------------------------
(* Row operations.                                                         *)

numrows(e) == Len(e.row)

\* row->chars[i] for 0 <= i <= row->size: chars[size] is the terminating NUL.
CharAt(chars, i) == IF i < Len(chars) THEN chars[i + 1] ELSE 0

\* editorRowCxToRx with TAB_STOP for TAB_STOP - 1 in the tab branch.
editorRowCxToRx_WideTab(chars, cx) ==
    LET rxAfter[i \in 0..cx] ==
            IF i = 0 THEN 0
            ELSE LET rx == rxAfter[i - 1]
                 IN  (IF CharAt(chars, i - 1) = TAB
                      THEN rx + TAB_STOP - (rx % TAB_STOP)
                      ELSE rx) + 1
    IN  rxAfter[cx]

\* editorRowCxToRx: the loop over i < cx, as the function i |-> rx after i
\* iterations.
editorRowCxToRx(chars, cx) ==
    LET rxAfter[i \in 0..cx] ==
            IF i = 0 THEN 0
            ELSE LET rx == rxAfter[i - 1]
                 IN  (IF CharAt(chars, i - 1) = TAB
                      THEN rx + (TAB_STOP - 1) - (rx % TAB_STOP)
                      ELSE rx) + 1
    IN  rxAfter[cx]

\* The inner loop of editorUpdateRow for a tab: one space, then spaces while
\* idx % TAB_STOP != 0.
RenderTab(r) ==
    LET r1 == Append(r, SPACE)
    IN  r1 \o Spaces((TAB_STOP - (Len(r1) % TAB_STOP)) % TAB_STOP)

\* editorUpdateRow: the render built from chars, byte by byte.
RenderOf(chars) ==
    LET renderAfter[j \in 0..Len(chars)] ==
            IF j = 0 THEN <<>>
            ELSE IF chars[j] = TAB
                 THEN RenderTab(renderAfter[j - 1])
                 ELSE Append(renderAfter[j - 1], chars[j])
    IN  renderAfter[Len(chars)]

\* editorUpdateRow: row->rsize = idx, the length of the render built.
editorUpdateRow(row) ==
    [row EXCEPT !.render = RenderOf(row.chars), !.rsize = Len(RenderOf(row.chars))]

\* E.dirty++, counted up to MaxDirty.
DirtyInc(d) == Min(d + 1, MaxDirty)

\* editorInsertRow with at brought into [0, numrows] instead of the early
\* return.
editorInsertRow_Clamps(e, at, s) ==
    LET k == IF at < 0 THEN 0 ELSE IF at > numrows(e) THEN numrows(e) ELSE at
    IN  [e EXCEPT
            !.row = InsertAt(e.row, k, editorUpdateRow([chars |-> s, render |-> <<>>, rsize |-> 0])),
            !.dirty = DirtyInc(e.dirty)]

\* editorInsertRow(at, s, len): the new row starts with rsize 0 and render
\* NULL, and editorUpdateRow fills them.
editorInsertRow(e, at, s) ==
    IF at < 0 \/ at > numrows(e) THEN e
    ELSE [e EXCEPT
            !.row = InsertAt(e.row, at, editorUpdateRow([chars |-> s, render |-> <<>>, rsize |-> 0])),
            !.dirty = DirtyInc(e.dirty)]

editorDelRow(e, at) ==
    IF at < 0 \/ at >= numrows(e) THEN e
    ELSE [e EXCEPT !.row = RemoveAt(e.row, at), !.dirty = DirtyInc(e.dirty)]

\* editorRowInsertChar without its editorUpdateRow() call: the render keeps
\* the bytes it had.
editorRowInsertChar_NoUpdate(e, r, at, c) ==
    LET row == e.row[r + 1]
        at1 == IF at < 0 \/ at > Len(row.chars) THEN Len(row.chars) ELSE at
    IN  [e EXCEPT !.row[r + 1].chars = InsertAt(row.chars, at1, c),
                  !.dirty = DirtyInc(e.dirty)]

\* editorRowInsertChar(&E.row[r], at, c), for 0 <= r < numrows.
editorRowInsertChar(e, r, at, c) ==
    LET row == e.row[r + 1]
        at1 == IF at < 0 \/ at > Len(row.chars) THEN Len(row.chars) ELSE at
        new == editorUpdateRow([row EXCEPT !.chars = InsertAt(row.chars, at1, c)])
    IN  [e EXCEPT !.row[r + 1] = new, !.dirty = DirtyInc(e.dirty)]

\* editorRowAppendString(&E.row[r], s, len), for 0 <= r < numrows.
editorRowAppendString(e, r, s) ==
    LET row == e.row[r + 1]
        new == editorUpdateRow([row EXCEPT !.chars = row.chars \o s])
    IN  [e EXCEPT !.row[r + 1] = new, !.dirty = DirtyInc(e.dirty)]

\* editorRowDelChar without its E.dirty++.
editorRowDelChar_NoDirty(e, r, at) ==
    LET row == e.row[r + 1]
    IN  IF at < 0 \/ at >= Len(row.chars) THEN e
        ELSE [e EXCEPT
                !.row[r + 1] = editorUpdateRow([row EXCEPT !.chars = RemoveAt(row.chars, at)])]

\* editorRowDelChar(&E.row[r], at), for 0 <= r < numrows.
editorRowDelChar(e, r, at) ==
    LET row == e.row[r + 1]
    IN  IF at < 0 \/ at >= Len(row.chars) THEN e
        ELSE [e EXCEPT
                !.row[r + 1] = editorUpdateRow([row EXCEPT !.chars = RemoveAt(row.chars, at)]),
                !.dirty = DirtyInc(e.dirty)]

-----------------------------------------------------------------------------
(* Undefined behaviour.  The field E.ub becomes TRUE when the code indexes *)
(* E.row outside [0, numrows) or reads a row's chars past its terminating  *)
(* NUL.  Nothing is known of the process from then on, and the model takes *)
(* no further step.                                                        *)

Poison(e) == [e EXCEPT !.ub = TRUE]

\* E.row[r] is an element of the row array.
ValidRow(e, r) == 0 <= r /\ r < numrows(e)

RowLen(e, r) == Len(e.row[r + 1].chars)

-----------------------------------------------------------------------------
(* Editor operations.                                                      *)

\* editorInsertChar() that puts the byte at the end of the row, whatever cx.
editorInsertChar_AtEnd(e, c) ==
    LET e1 == IF e.cy = numrows(e) THEN editorInsertRow(e, numrows(e), <<>>) ELSE e
    IN  IF ~ValidRow(e1, e1.cy) THEN Poison(e1)
        ELSE [editorRowInsertChar(e1, e1.cy, RowLen(e1, e1.cy), c) EXCEPT !.cx = e1.cx + 1]

editorInsertChar(e, c) ==
    LET e1 == IF e.cy = numrows(e) THEN editorInsertRow(e, numrows(e), <<>>) ELSE e
    IN  IF ~ValidRow(e1, e1.cy) THEN Poison(e1)
        ELSE [editorRowInsertChar(e1, e1.cy, e1.cx, c) EXCEPT !.cx = e1.cx + 1]

\* The split that leaves row cy whole: its size is not cut to cx.
SplitRow_NoCut(e) ==
    LET chars == e.row[e.cy + 1].chars
    IN  editorInsertRow(e, e.cy + 1, SubSeq(chars, e.cx + 1, Len(chars)))

\* The else branch of editorInsertNewLine: the tail of row cy becomes row
\* cy + 1, then row cy is cut to its first cx bytes and rendered again.
SplitRow(e) ==
    LET chars == e.row[e.cy + 1].chars
        e1 == editorInsertRow(e, e.cy + 1, SubSeq(chars, e.cx + 1, Len(chars)))
        row == e1.row[e.cy + 1]
    IN  [e1 EXCEPT !.row[e.cy + 1] =
            editorUpdateRow([row EXCEPT !.chars = SubSeq(row.chars, 1, e.cx)])]

editorInsertNewLine(e) ==
    LET e1 == IF e.cx = 0 THEN editorInsertRow(e, e.cy, <<>>)
              ELSE IF ~ValidRow(e, e.cy) THEN Poison(e)
              ELSE IF e.cx > RowLen(e, e.cy) THEN Poison(e)
              ELSE SplitRow(e)
    IN  [e1 EXCEPT !.cy = e.cy + 1, !.cx = 0]

\* The join with E.cx taken after the append, when row cy - 1 already holds
\* the bytes of row cy.
JoinRow_CxAfterAppend(e) ==
    LET e2 == editorRowAppendString(e, e.cy - 1, e.row[e.cy + 1].chars)
        e3 == editorDelRow([e2 EXCEPT !.cx = RowLen(e2, e.cy - 1)], e.cy)
    IN  [e3 EXCEPT !.cy = e.cy - 1]

\* The else branch of editorDelChar: row cy is appended to row cy - 1 and
\* removed.
JoinRow(e) ==
    LET e1 == [e EXCEPT !.cx = RowLen(e, e.cy - 1)]
        e2 == editorRowAppendString(e1, e.cy - 1, e.row[e.cy + 1].chars)
        e3 == editorDelRow(e2, e.cy)
    IN  [e3 EXCEPT !.cy = e.cy - 1]

editorDelChar(e) ==
    IF e.cy = numrows(e) THEN e
    ELSE IF e.cx = 0 /\ e.cy = 0 THEN e
    ELSE IF ~ValidRow(e, e.cy) THEN Poison(e)
    ELSE IF e.cx > 0
         THEN [editorRowDelChar(e, e.cy, e.cx - 1) EXCEPT !.cx = e.cx - 1]
         ELSE JoinRow(e)

\* The switch of editorMoveCursor.
MoveStep(e, k) ==
    CASE k = ARROW_LEFT ->
            IF e.cx # 0 THEN [e EXCEPT !.cx = e.cx - 1]
            ELSE IF e.cy > 0
                 THEN IF ~ValidRow(e, e.cy - 1) THEN Poison(e)
                      ELSE [e EXCEPT !.cy = e.cy - 1, !.cx = RowLen(e, e.cy - 1)]
                 ELSE e
      [] k = ARROW_RIGHT ->
            IF e.cy >= numrows(e) THEN e
            ELSE IF ~ValidRow(e, e.cy) THEN Poison(e)
            ELSE IF e.cx < RowLen(e, e.cy) THEN [e EXCEPT !.cx = e.cx + 1]
            ELSE IF e.cx = RowLen(e, e.cy) THEN [e EXCEPT !.cy = e.cy + 1, !.cx = 0]
            ELSE e
      [] k = ARROW_UP ->
            IF e.cy # 0 THEN [e EXCEPT !.cy = e.cy - 1] ELSE e
      [] k = ARROW_DOWN ->
            IF e.cy < numrows(e) THEN [e EXCEPT !.cy = e.cy + 1] ELSE e
      [] OTHER -> e

\* editorMoveCursor without its last statements: cx is left as the switch
\* set it.
SnapCx_Off(e) == e

\* The end of editorMoveCursor: cx is cut to the length of the row the
\* cursor is now on, 0 on the line past the last row.
SnapCx(e) ==
    IF e.cy < numrows(e) /\ ~ValidRow(e, e.cy) THEN Poison(e)
    ELSE LET rowlen == IF e.cy >= numrows(e) THEN 0 ELSE RowLen(e, e.cy)
         IN  IF e.cx > rowlen THEN [e EXCEPT !.cx = rowlen] ELSE e

editorMoveCursor(e, k) ==
    IF e.ub THEN e
    ELSE LET e1 == MoveStep(e, k)
         IN  IF e1.ub THEN e1 ELSE SnapCx(e1)

\* while (times--) editorMoveCursor(k)
RECURSIVE MoveTimes(_, _, _)
MoveTimes(e, k, times) ==
    IF times <= 0 THEN e ELSE MoveTimes(editorMoveCursor(e, k), k, times - 1)

PageUp(e) ==
    MoveTimes([e EXCEPT !.cy = e.rowoffset], ARROW_UP, e.screenrows)

PageDown(e) ==
    LET cy1 == e.rowoffset + e.screenrows - 1
        cy2 == IF cy1 > numrows(e) THEN numrows(e) ELSE cy1
    IN  MoveTimes([e EXCEPT !.cy = cy2], ARROW_DOWN, e.screenrows)

\* case DEL_KEY without its editorMoveCursor(ARROW_RIGHT): a Backspace.
DeleteKey_NoMove(e) == editorDelChar(e)

\* case DEL_KEY: editorMoveCursor(ARROW_RIGHT), then editorDelChar().
DeleteKey(e) ==
    LET e1 == editorMoveCursor(e, ARROW_RIGHT)
    IN  IF e1.ub THEN e1 ELSE editorDelChar(e1)

\* The cases of editorProcessKeypress other than the quit and save chords.
Dispatch(e, c) ==
    CASE c = CR -> editorInsertNewLine(e)
      [] c = PAGE_UP -> PageUp(e)
      [] c = PAGE_DOWN -> PageDown(e)
      [] c = HOME_KEY -> [e EXCEPT !.cx = 0]
      [] c = END_KEY ->
            IF e.cy < numrows(e)
            THEN IF ~ValidRow(e, e.cy) THEN Poison(e)
                 ELSE [e EXCEPT !.cx = RowLen(e, e.cy)]
            ELSE e
      [] c \in {BACKSPACE, CTRL_KEY(104)} -> editorDelChar(e)
      [] c = DEL_KEY -> DeleteKey(e)
      [] c \in {CTRL_KEY(108), ESC} -> e
      [] c \in {ARROW_UP, ARROW_DOWN, ARROW_LEFT, ARROW_RIGHT} -> editorMoveCursor(e, c)
      [] OTHER -> editorInsertChar(e, c)

-----------------------------------------------------------------------------
(* Output.                                                                 *)

\* The first statements of editorScroll: E.rx from E.cx.
ScrollRx(e) ==
    IF e.cy < numrows(e)
    THEN editorRowCxToRx(e.row[e.cy + 1].chars, e.cx)
    ELSE e.cx

\* editorScroll with > where the code has >= in its scroll-down and
\* scroll-right tests.
ScrollOffsets_Late(e) ==
    LET ro1 == IF e.cy < e.rowoffset THEN e.cy ELSE e.rowoffset
        ro2 == IF e.cy > ro1 + e.screenrows THEN e.cy - e.screenrows + 1 ELSE ro1
        co1 == IF e.rx < e.coloffset THEN e.rx ELSE e.coloffset
        co2 == IF e.rx > co1 + e.screencols THEN e.rx - e.screencols + 1 ELSE co1
    IN  [e EXCEPT !.rowoffset = ro2, !.coloffset = co2]

\* The four ifs of editorScroll, in order.
ScrollOffsets(e) ==
    LET ro1 == IF e.cy < e.rowoffset THEN e.cy ELSE e.rowoffset
        ro2 == IF e.cy >= ro1 + e.screenrows THEN e.cy - e.screenrows + 1 ELSE ro1
        co1 == IF e.rx < e.coloffset THEN e.rx ELSE e.coloffset
        co2 == IF e.rx >= co1 + e.screencols THEN e.rx - e.screencols + 1 ELSE co1
    IN  [e EXCEPT !.rowoffset = ro2, !.coloffset = co2]

editorScroll(e) ==
    IF e.ub THEN e
    ELSE IF e.cy < numrows(e) /\ (~ValidRow(e, e.cy) \/ e.cx > RowLen(e, e.cy) + 1)
    THEN Poison(e)
    ELSE ScrollOffsets([e EXCEPT !.rx = ScrollRx(e)])

\* editorSetStatusMsg: the message is a kind and its arguments.
Msg(kind, arg) == [kind |-> kind, arg |-> arg]

editorSetStatusMsg(e, kind, arg) == [e EXCEPT !.statusmsg = Msg(kind, arg)]

-----------------------------------------------------------------------------
(* File i/o.                                                               *)

\* editorRowsToString with the newline between rows only, none after the
\* last row.
editorRowsToString_NoLastNewline(e) ==
    Concat([i \in 1..numrows(e) |->
                IF i < numrows(e) THEN Append(e.row[i].chars, NL) ELSE e.row[i].chars])

\* editorRowsToString(): every row's bytes, each followed by '\n'.
editorRowsToString(e) ==
    Concat([i \in 1..numrows(e) |-> Append(e.row[i].chars, NL)])

\* getline(): the lines of the stream, each with its newline; a last line
\* without one is returned as it is.
RECURSIVE GetLines(_)
GetLines(content) ==
    IF content = <<>> THEN <<>>
    ELSE LET nls == {i \in 1..Len(content) : content[i] = NL}
         IN  IF nls = {} THEN <<content>>
             ELSE LET k == CHOOSE i \in nls : \A j \in nls : i <= j
                  IN  <<SubSeq(content, 1, k)>> \o GetLines(SubSeq(content, k + 1, Len(content)))

\* while (linelen > 0 && (line[linelen - 1] == '\n' || ... == '\r')) linelen--
RECURSIVE StripEol(_)
StripEol(line) ==
    IF line # <<>> /\ line[Len(line)] \in {NL, CR}
    THEN StripEol(SubSeq(line, 1, Len(line) - 1))
    ELSE line

\* The lines the while loop of editorOpen sees: the first getline() result
\* is assigned to linelen before the loop and never used.
LoopLines(content) ==
    LET lines == GetLines(content)
    IN  IF lines = <<>> THEN <<>> ELSE Tail(lines)

RECURSIVE InsertLines(_, _)
InsertLines(e, lines) ==
    IF lines = <<>> THEN e
    ELSE InsertLines(editorInsertRow(e, numrows(e), StripEol(Head(lines))), Tail(lines))

\* editorOpen(filename) once fopen() has succeeded on a file of this content.
editorOpen(e, filename, content) ==
    [InsertLines([e EXCEPT !.filename = filename], LoopLines(content))
        EXCEPT !.dirty = 0]

-----------------------------------------------------------------------------
(* Input.                                                                  *)

IsDigit(b) == 48 <= b /\ b <= 57

\* The switch without its cases '7' and '8'.
TildeKey_NoSevenEight(d) ==
    CASE d = 49 -> HOME_KEY
      [] d = 51 -> DEL_KEY
      [] d = 52 -> END_KEY
      [] d = 53 -> PAGE_UP
      [] d = 54 -> PAGE_DOWN
      [] OTHER -> ESC

\* switch (seq[1]) after ESC [ <digit> ~; no case means the final return.
TildeKey(d) ==
    CASE d = 49 -> HOME_KEY
      [] d = 51 -> DEL_KEY
      [] d = 52 -> END_KEY
      [] d = 53 -> PAGE_UP
      [] d = 54 -> PAGE_DOWN
      [] d = 55 -> HOME_KEY
      [] d = 56 -> END_KEY
      [] OTHER -> ESC

\* switch (seq[1]) after ESC [ and a byte that is no digit.
BracketKey(b) ==
    CASE b = 65 -> ARROW_UP
      [] b = 66 -> ARROW_DOWN
      [] b = 67 -> ARROW_RIGHT
      [] b = 68 -> ARROW_LEFT
      [] b = 70 -> END_KEY
      [] b = 72 -> HOME_KEY
      [] OTHER -> ESC

\* The byte the code compares seq[0] with in its second branch: '0'.
SecondIntroducer == 48

\* switch (seq[1]) of that branch.
OKey(b) ==
    CASE b = 72 -> HOME_KEY
      [] b = 70 -> END_KEY
      [] OTHER -> ESC

\* A decoder that gives up after ESC without the bytes it could not
\* complete: they stay in the queue behind the bare escape.
editorReadKey_KeepsPartial(q) ==
    LET c == q[1]
    IN  IF c # ESC THEN [key |-> c, n |-> 1]
        ELSE IF Len(q) < 3 THEN [key |-> ESC, n |-> 1]
        ELSE IF q[2] = 91
             THEN IF IsDigit(q[3])
                  THEN IF Len(q) < 4 THEN [key |-> ESC, n |-> 1]
                       ELSE IF q[4] = 126 THEN [key |-> TildeKey(q[3]), n |-> 4]
                       ELSE [key |-> ESC, n |-> 4]
                  ELSE [key |-> BracketKey(q[3]), n |-> 3]
        ELSE IF q[2] = SecondIntroducer THEN [key |-> OKey(q[3]), n |-> 3]
        ELSE [key |-> ESC, n |-> 3]

\* editorReadKey() on a terminal whose input queue holds the bytes q, q not
\* empty: the key returned and the number n of bytes read.  A read() that
\* finds the queue empty returns 0 after the timeout.
editorReadKey(q) ==
    LET c == q[1]
    IN  IF c # ESC THEN [key |-> c, n |-> 1]
        ELSE IF Len(q) < 2 THEN [key |-> ESC, n |-> 1]
        ELSE IF Len(q) < 3 THEN [key |-> ESC, n |-> 2]
        ELSE IF q[2] = 91
             THEN IF IsDigit(q[3])
                  THEN IF Len(q) < 4 THEN [key |-> ESC, n |-> 3]
                       ELSE IF q[4] = 126 THEN [key |-> TildeKey(q[3]), n |-> 4]
                       ELSE [key |-> ESC, n |-> 4]
                  ELSE [key |-> BracketKey(q[3]), n |-> 3]
        ELSE IF q[2] = SecondIntroducer THEN [key |-> OKey(q[3]), n |-> 3]
        ELSE [key |-> ESC, n |-> 3]

\* !iscntrl(c) && c < 128 for a key the decoder returns: a printable ASCII
\* byte.  (For the key codes from 1000 on, c < 128 is false.)
IsPrintable(c) == 32 <= c /\ c <= 126

-----------------------------------------------------------------------------
(* The environment: what is typed, the terminal, the file.                 *)

\* What arrives at the terminal while the main loop waits in one
\* editorReadKey() call; the call consumes all of it.
Bursts ==
    {<<CR>>, <<CTRL_KEY(113)>>, <<CTRL_KEY(115)>>, <<BACKSPACE>>, <<CTRL_KEY(104)>>,
     <<CTRL_KEY(108)>>, <<ESC>>, <<97>>, <<TAB>>,
     <<ESC, 91>>,
     <<ESC, 91, 65>>, <<ESC, 91, 66>>, <<ESC, 91, 67>>, <<ESC, 91, 68>>,
     <<ESC, 91, 72>>, <<ESC, 91, 70>>, <<ESC, 79, 72>>, <<ESC, 79, 70>>,
     <<ESC, 48, 72>>, <<ESC, 48, 70>>,
     <<ESC, 91, 49, 126>>, <<ESC, 91, 51, 126>>, <<ESC, 91, 52, 126>>,
     <<ESC, 91, 53, 126>>, <<ESC, 91, 54, 126>>, <<ESC, 91, 57, 126>>}

\* The same for a call made by editorPrompt().
PromptBursts ==
    {<<97>>, <<BACKSPACE>>, <<CTRL_KEY(104)>>, <<ESC>>, <<CR>>, <<TAB>>,
     <<ESC, 91, 51, 126>>, <<ESC, 91, 65>>}

\* The bytes that reach the input queue one by one in the decoder
\* specification.
InBytes == {ESC, 91, 79, 48, 72, 70, 53, 126, 97}

\* Terminal sizes with at least one text row left after the two bars.
WinSizes == {<<3, 9>>, <<4, 3>>}

\* A terminal of two rows leaves no text row: screenrows = 0.
TwoRowSizes == {<<2, 3>>}

\* The terminal answers neither the ioctl nor the cursor position query.
NoSize == <<0, 0>>

\* argv[1], when given.
ArgName == <<102>>

FileBytes == {97, NL, CR}

\* The contents a file on the command line may have.
Files == SeqsUpTo(FileBytes, MaxFile)

\* How a save ends: "ok", or the call that failed.
SaveOutcomes == {"ok", "open", "ftruncate", "write"}

-----------------------------------------------------------------------------
(* Start of the process.                                                   *)

\* The terminal before the process starts: in the shell's mode, Cooked, or
\* no terminal at all (stdin is no tty, and tcgetattr() fails).
Cooked == [mode |-> "cooked", screen |-> "shell"]

NoTty == [mode |-> "notty", screen |-> "shell"]

\* enableRawMode() on a terminal: the attributes are saved in
\* E.orig_termios, disableRawMode is registered with atexit(), and the raw
\* attributes are set.  (A terminal that answers tcgetattr() is taken to
\* accept tcsetattr(), here and at exit.)
enableRawMode(t) == [t EXCEPT !.mode = "raw"]

\* disableRawMode(): tcsetattr() with the saved attributes.
disableRawMode(t) == [t EXCEPT !.mode = "cooked"]

\* The handlers exit() runs: disableRawMode, once enableRawMode() has
\* registered it.
AtExit(t) == IF t.mode = "raw" THEN disableRawMode(t) ELSE t

\* write "\x1b[2J" and "\x1b[H": die() and the quit chord do it before
\* they call exit().
ClearScreen(t) == [t EXCEPT !.screen = "clear"]

\* write of a frame by editorRefreshScreen().
DrawFrame(t) == [t EXCEPT !.screen = "frame"]

\* struct editorConfig E before main(): static storage, all zero.
ZeroE ==
    [cx |-> 0, cy |-> 0, rx |-> 0, screenrows |-> 0, screencols |-> 0,
     row |-> <<>>, rowoffset |-> 0, coloffset |-> 0, filename |-> NULL,
     statusmsg |-> Msg("", <<>>), dirty |-> 0, ub |-> FALSE]

\* The environments a process starts in: a terminal size from sizes, no
\* argument, or the argument ArgName naming a file with one of the contents
\* or no file at all.
InitEnv(sizes) ==
    /\ pc = "start"
    /\ E = ZeroE
    /\ quit_times = QUIT_TIMES
    /\ pbuf = <<>>
    /\ plen = 0
    /\ ws \in sizes
    /\ term \in {Cooked, NoTty}
    /\ \/ argv = <<>> /\ disk = NoFile
       \/ argv = <<ArgName>> /\ disk \in Files \cup {NoFile}
    /\ exitcode = -1
    /\ inq = <<>>
    /\ key = 0
    /\ seq = <<>>

Init == InitEnv(WinSizes \cup {NoSize})

\* initEditor() on a terminal of size w.
initEditor(e, w) ==
    [e EXCEPT !.cx = 0, !.cy = 0, !.rx = 0, !.row = <<>>, !.rowoffset = 0,
              !.coloffset = 0, !.filename = NULL, !.statusmsg = Msg("", <<>>),
              !.dirty = 0, !.screenrows = w[1] - 2, !.screencols = w[2]]

\* The state effect of editorRefreshScreen(): its editorScroll() call.
editorRefreshScreen(e) == editorScroll(e)

\* The screen cleared, then exit(status): the handlers registered with
\* atexit() run, the process ends, and its memory with it; the terminal and
\* the file stay.
Exit(status) ==
    /\ pc' = "exit"
    /\ exitcode' = status
    /\ E' = ZeroE
    /\ quit_times' = QUIT_TIMES
    /\ pbuf' = <<>>
    /\ plen' = 0
    /\ argv' = <<>>
    /\ term' = AtExit(ClearScreen(term))
    /\ UNCHANGED <<ws, disk, inq, key, seq>>

\* die() ending with exit(0).
Die_ExitZero == Exit(0)

\* die(): exit(1).
Die == Exit(1)

\* main() when tcgetattr() fails in enableRawMode().
StartNoTerm ==
    /\ pc = "start"
    /\ term = NoTty
    /\ Die

\* main() when getWindowSize() fails in initEditor().
StartNoSize ==
    /\ pc = "start"
    /\ term = Cooked
    /\ ws = NoSize
    /\ Die

\* main() when fopen() fails in editorOpen().
StartNoFile ==
    /\ pc = "start"
    /\ term = Cooked
    /\ ws # NoSize
    /\ argv # <<>>
    /\ disk = NoFile
    /\ Die

\* main() up to the first read: initEditor(), editorOpen() when a file is
\* named, the help message and the first frame.
Start ==
    /\ pc = "start"
    /\ term = Cooked
    /\ ws # NoSize
    /\ argv = <<>> \/ disk # NoFile
    /\ LET e1 == initEditor(E, ws)
           e2 == IF argv = <<>> THEN e1 ELSE editorOpen(e1, argv[1], disk)
           e3 == editorSetStatusMsg(e2, "HELP", <<>>)
       IN  E' = editorRefreshScreen(e3)
    /\ term' = DrawFrame(enableRawMode(term))
    /\ pc' = "loop"
    /\ UNCHANGED <<quit_times, pbuf, plen, argv, ws, disk, exitcode, inq, key, seq>>

-----------------------------------------------------------------------------
(* The main loop.                                                          *)

TotalChars(e) == SeqSum([i \in 1..numrows(e) |-> Len(e.row[i].chars)])

\* The states the model follows: the buffer within MaxRows and MaxChars.
\* (On a two-row terminal PageUp can push cy up without end; it is followed
\* one line past the largest buffer.)
Within(e) ==
    /\ numrows(e) <= MaxRows
    /\ TotalChars(e) <= MaxChars
    /\ e.cy <= MaxRows + 1

\* The keys editorReadKey() returns for the bursts of a set, each burst
\* consumed whole by the call.
KeysOf(bursts) ==
    {editorReadKey(b).key : b \in {x \in bursts : editorReadKey(x).n = Len(x)}}

\* The keys the main loop reads.
Keys == KeysOf(Bursts)

\* The same step without the last statement of editorProcessKeypress(),
\* quit_times = QUIT_TIMES.
Keypress_KeepCounter(c) ==
    /\ pc = "loop"
    /\ ~E.ub
    /\ c \notin {CTRL_KEY(113), CTRL_KEY(115)}
    /\ c \in Keys
    /\ LET e1 == editorRefreshScreen(Dispatch(E, c))
       IN  Within(e1) /\ E' = e1
    /\ UNCHANGED <<pc, quit_times, pbuf, plen, argv, ws, term, disk, exitcode, inq, key, seq>>

\* The key read by editorProcessKeypress() is neither chord: the switch,
\* the reset of quit_times, the next frame.
Keypress(c) ==
    /\ pc = "loop"
    /\ ~E.ub
    /\ c \notin {CTRL_KEY(113), CTRL_KEY(115)}
    /\ c \in Keys
    /\ LET e1 == editorRefreshScreen(Dispatch(E, c))
       IN  Within(e1) /\ E' = e1
    /\ quit_times' = QUIT_TIMES
    /\ UNCHANGED <<pc, pbuf, plen, argv, ws, term, disk, exitcode, inq, key, seq>>

\* The warning with the counter tested after the decrement (--quit_times
\* > 0 in the guard): the warning names one press fewer.
QuitWarn_DecrementFirst ==
    /\ pc = "loop"
    /\ ~E.ub
    /\ CTRL_KEY(113) \in Keys
    /\ E.dirty # 0 /\ quit_times > 0
    /\ E' = editorRefreshScreen(editorSetStatusMsg(E, "WARNING", <<quit_times - 1>>))
    /\ quit_times' = quit_times - 1
    /\ UNCHANGED <<pc, pbuf, plen, argv, ws, term, disk, exitcode, inq, key, seq>>

\* case CTRL_KEY('q') with unsaved changes and quit_times > 0.
QuitWarn ==
    /\ pc = "loop"
    /\ ~E.ub
    /\ CTRL_KEY(113) \in Keys
    /\ E.dirty # 0 /\ quit_times > 0
    /\ E' = editorRefreshScreen(editorSetStatusMsg(E, "WARNING", <<quit_times>>))
    /\ quit_times' = quit_times - 1
    /\ UNCHANGED <<pc, pbuf, plen, argv, ws, term, disk, exitcode, inq, key, seq>>

\* The quit chord without the test of E.dirty: exit(0) whatever the buffer.
QuitExit_Unguarded ==
    /\ pc = "loop"
    /\ ~E.ub
    /\ CTRL_KEY(113) \in Keys
    /\ Exit(0)

\* case CTRL_KEY('q') otherwise: exit(0).
QuitExit ==
    /\ pc = "loop"
    /\ ~E.ub
    /\ CTRL_KEY(113) \in Keys
    /\ ~(E.dirty # 0 /\ quit_times > 0)
    /\ Exit(0)

\* editorSave() with E.dirty = 0 moved before the calls that can fail.
SaveState_CleanFirst(e, io) ==
    IF io = "ok"
    THEN editorSetStatusMsg([e EXCEPT !.dirty = 0], "written", <<Len(editorRowsToString(e))>>)
    ELSE editorSetStatusMsg([e EXCEPT !.dirty = 0], "Can't save", <<>>)

\* editorSave() from the call of editorRowsToString() on, the file system
\* answering with outcome io: the editor state after it.
SaveState(e, io) ==
    IF io = "ok"
    THEN editorSetStatusMsg([e EXCEPT !.dirty = 0], "written", <<Len(editorRowsToString(e))>>)
    ELSE editorSetStatusMsg(e, "Can't save", <<>>)

\* The file after it: open() creates it, ftruncate() and write() give it the
\* serialised rows.
SaveDisk(e, io, d) ==
    CASE io = "ok" -> editorRowsToString(e)
      [] io = "open" -> d
      [] io = "ftruncate" -> IF d = NoFile THEN <<>> ELSE d
      [] OTHER -> Unspecified

\* case CTRL_KEY('s') with a filename: editorSave(), the reset of
\* quit_times, the next frame.
SaveNamed ==
    /\ pc = "loop"
    /\ ~E.ub
    /\ CTRL_KEY(115) \in Keys
    /\ E.filename # NULL
    /\ \E io \in SaveOutcomes :
          /\ E' = editorRefreshScreen(SaveState(E, io))
          /\ disk' = SaveDisk(E, io, disk)
    /\ quit_times' = QUIT_TIMES
    /\ UNCHANGED <<pc, pbuf, plen, argv, ws, term, exitcode, inq, key, seq>>

\* case CTRL_KEY('s') without a filename: editorSave() calls editorPrompt(),
\* which shows the empty prompt and waits for a key.
SaveAsk ==
    /\ pc = "loop"
    /\ ~E.ub
    /\ CTRL_KEY(115) \in Keys
    /\ E.filename = NULL
    /\ pc' = "prompt"
    /\ pbuf' = <<>>
    /\ plen' = 0
    /\ E' = editorRefreshScreen(editorSetStatusMsg(E, "Save as", <<>>))
    /\ UNCHANGED <<quit_times, argv, ws, term, disk, exitcode, inq, key, seq>>

-----------------------------------------------------------------------------
(* The prompt loop.                                                        *)

\* The keys editorPrompt() reads.
PromptKeys == KeysOf(PromptBursts)

\* DEL_KEY, Ctrl-H or BACKSPACE: buffer[buffer_len--] = '\0' writes the NUL
\* over the terminating NUL, so the string stays and only buffer_len drops.
PromptErase ==
    /\ pc = "prompt"
    /\ PromptKeys \cap {DEL_KEY, CTRL_KEY(104), BACKSPACE} # {}
    /\ plen' = IF plen # 0 THEN plen - 1 ELSE plen
    /\ E' = editorRefreshScreen(editorSetStatusMsg(E, "Save as", pbuf))
    /\ UNCHANGED <<pc, quit_times, pbuf, argv, ws, term, disk, exitcode, inq, key, seq>>

\* A printable byte: buffer[buffer_len++] = c, then the NUL after it.
PromptType(c) ==
    /\ pc = "prompt"
    /\ IsPrintable(c)
    /\ c \in PromptKeys
    /\ plen < MaxPrompt
    /\ pbuf' = Append(SubSeq(pbuf, 1, plen), c)
    /\ plen' = plen + 1
    /\ E' = editorRefreshScreen(editorSetStatusMsg(E, "Save as", pbuf'))
    /\ UNCHANGED <<pc, quit_times, argv, ws, term, disk, exitcode, inq, key, seq>>

\* Enter on an empty buffer_len, or a key no branch takes: the loop goes
\* round.
PromptIgnore(c) ==
    /\ pc = "prompt"
    /\ c \in PromptKeys
    /\ c \notin {DEL_KEY, CTRL_KEY(104), BACKSPACE, ESC}
    /\ IF c = CR THEN plen = 0 ELSE ~IsPrintable(c)
    /\ E' = editorRefreshScreen(editorSetStatusMsg(E, "Save as", pbuf))
    /\ UNCHANGED <<pc, quit_times, pbuf, plen, argv, ws, term, disk, exitcode, inq, key, seq>>

\* Escape: editorPrompt() returns NULL, editorSave() reports and returns,
\* editorProcessKeypress() resets quit_times, the next frame.
PromptCancel ==
    /\ pc = "prompt"
    /\ ESC \in PromptKeys
    /\ LET e1 == editorSetStatusMsg(E, "", <<>>)
           e2 == [e1 EXCEPT !.filename = NULL]
       IN  E' = editorRefreshScreen(editorSetStatusMsg(e2, "Save aborted", <<>>))
    /\ pc' = "loop"
    /\ quit_times' = QUIT_TIMES
    /\ UNCHANGED <<pbuf, plen, argv, ws, term, disk, exitcode, inq, key, seq>>

\* Enter with buffer_len # 0: editorPrompt() returns buffer, which becomes
\* E.filename, and editorSave() goes on to write the file.
PromptEnter ==
    /\ pc = "prompt"
    /\ CR \in PromptKeys
    /\ plen # 0
    /\ \E io \in SaveOutcomes :
          LET e1 == editorSetStatusMsg(E, "", <<>>)
              e2 == [e1 EXCEPT !.filename = pbuf]
          IN  /\ E' = editorRefreshScreen(SaveState(e2, io))
              /\ disk' = SaveDisk(e2, io, disk)
    /\ pc' = "loop"
    /\ quit_times' = QUIT_TIMES
    /\ UNCHANGED <<pbuf, plen, argv, ws, term, exitcode, inq, key, seq>>

-----------------------------------------------------------------------------
(* The editor.                                                             *)

Next ==
    \/ StartNoTerm
    \/ StartNoSize
    \/ StartNoFile
    \/ Start
    \/ \E c \in Keys : Keypress(c)
    \/ QuitWarn
    \/ QuitExit
    \/ SaveNamed
    \/ SaveAsk
    \/ PromptErase
    \/ \E c \in PromptKeys : PromptType(c)
    \/ \E c \in PromptKeys : PromptIgnore(c)
    \/ PromptCancel
    \/ PromptEnter

\* The editor on a terminal that leaves at least one text row.
Spec == Init /\ [][Next]_vars

\* The editor on a terminal of two rows.
InitTwoRows == InitEnv(TwoRowSizes \cup {NoSize})

SpecTwoRows == InitTwoRows /\ [][Next]_vars

-----------------------------------------------------------------------------
(* The editor in an environment that fails: a read() of the terminal can   *)
(* return an error, and a signal can end the process.                      *)

\* The first read() of editorReadKey() returns -1 with errno other than
\* EAGAIN, in the main loop or in the prompt: die("read").
ReadFail ==
    /\ pc \in {"loop", "prompt"}
    /\ Die

\* A signal whose action is to terminate (SIGTERM, SIGHUP, SIGKILL) is
\* delivered while the process waits for a key: the process ends without
\* exit(), so no atexit() handler runs and nothing more is written.  exitcode
\* -2 stands for "ended by a signal".
Signal ==
    /\ pc \in {"loop", "prompt"}
    /\ pc' = "exit"
    /\ exitcode' = -2
    /\ E' = ZeroE
    /\ quit_times' = QUIT_TIMES
    /\ pbuf' = <<>>
    /\ plen' = 0
    /\ argv' = <<>>
    /\ UNCHANGED <<ws, term, disk, inq, key, seq>>

NextFaults ==
    \/ Next
    \/ ReadFail
    \/ Signal

\* One terminal size, and a file of one line after the one editorOpen()
\* drops.
InitFaults == InitEnv({<<3, 9>>, NoSize}) /\ disk \in {NoFile, <<NL, 97>>}

SpecFaults == InitFaults /\ [][NextFaults]_vars

-----------------------------------------------------------------------------
(* The decoder alone: bytes reach the input queue one by one, at any pace, *)
(* and editorReadKey() is called whenever the queue is not empty.          *)

InitKeys == InitEnv({<<4, 9>>}) /\ argv = <<>> /\ term = Cooked

\* One byte reaches the terminal.
Arrive(b) ==
    /\ pc = "loop"
    /\ Len(inq) < MaxIn
    /\ inq' = Append(inq, b)
    /\ UNCHANGED <<pc, E, quit_times, pbuf, plen, argv, ws, term, disk, exitcode, key, seq>>

\* One call of editorReadKey().
ReadKeyCall ==
    /\ pc = "loop"
    /\ inq # <<>>
    /\ LET r == editorReadKey(inq)
       IN  /\ key' = r.key
           /\ seq' = SubSeq(inq, 1, r.n)
           /\ inq' = SubSeq(inq, r.n + 1, Len(inq))
    /\ UNCHANGED <<pc, E, quit_times, pbuf, plen, argv, ws, term, disk, exitcode>>

NextKeys ==
    \/ Start
    \/ \E b \in InBytes : Arrive(b)
    \/ ReadKeyCall

SpecKeys == InitKeys /\ [][NextKeys]_vars

-----------------------------------------------------------------------------
(* The decoder on whole sequences: the first bytes typed arrive together,  *)
(* and editorReadKey() is called until the queue is empty.                 *)

\* ESC, '[', 'O', '~', the digits, the letters the switches name, and two
\* bytes they do not name ('a', 'E').
DecodeBytes == {ESC, 91, 79, 126, 97, 69, 65, 66, 67, 68, 70, 72} \cup (48..57)

\* One byte, or ESC and up to MaxSeq bytes after it.
DecodeInputs ==
    {<<b>> : b \in DecodeBytes} \cup {<<ESC>> \o s : s \in SeqsUpTo(DecodeBytes, MaxSeq)}

\* The first bytes typed reach the terminal together, before the first read
\* returns.
ArriveTogether ==
    /\ pc = "loop"
    /\ inq = <<>> /\ seq = <<>>
    /\ inq' \in DecodeInputs
    /\ UNCHANGED <<pc, E, quit_times, pbuf, plen, argv, ws, term, disk, exitcode, key, seq>>

NextDecode ==
    \/ Start
    \/ ArriveTogether
    \/ ReadKeyCall

SpecDecode == InitKeys /\ [][NextDecode]_vars

-----------------------------------------------------------------------------
(* The editing operations alone: rows are inserted by calls of             *)
(* editorInsertRow() with any index, while the cursor rests at (0, 0) as   *)
(* it does during editorOpen(), and the main loop reads Enter, Backspace,  *)
(* Delete and the arrows.                                                  *)

\* The rows inserted: a tab and a letter, in any order.
RowTexts == SeqsUpTo({TAB, 97}, MaxRowLen)

\* The keys read.
EditKeys ==
    {CR, BACKSPACE, CTRL_KEY(104), DEL_KEY, ARROW_LEFT, ARROW_RIGHT, ARROW_UP, ARROW_DOWN}

\* editorInsertRow(at, s, len), for any at from -1 to numrows + 1.
InsertRowCall(at, s) ==
    /\ pc = "loop"
    /\ ~E.ub
    /\ E.cx = 0 /\ E.cy = 0
    /\ numrows(E) < MaxOpRows
    /\ TotalChars(E) + Len(s) <= MaxOpChars
    /\ at \in -1..(numrows(E) + 1)
    /\ E' = editorInsertRow(E, at, s)
    /\ UNCHANGED <<pc, quit_times, pbuf, plen, argv, ws, term, disk, exitcode, inq, key, seq>>

\* editorProcessKeypress() reading the key c, and the next frame.
EditKey(c) ==
    /\ pc = "loop"
    /\ ~E.ub
    /\ LET e1 == editorRefreshScreen(Dispatch(E, c))
       IN  numrows(e1) <= MaxOpRows + 1 /\ E' = e1
    /\ quit_times' = QUIT_TIMES
    /\ UNCHANGED <<pc, pbuf, plen, argv, ws, term, disk, exitcode, inq, key, seq>>

NextRowOps ==
    \/ Start
    \/ \E at \in -1..(MaxOpRows + 1), s \in RowTexts : InsertRowCall(at, s)
    \/ \E c \in EditKeys : EditKey(c)

SpecRowOps == InitKeys /\ [][NextRowOps]_vars

-----------------------------------------------------------------------------
(* Properties.                                                             *)

\* The process waits for a key, in the main loop or in the prompt.
Running == pc \in {"loop", "prompt"}

\* The length of the row the cursor is on; the line past the last row
\* counts as an empty row.
CursorRowLen == IF ValidRow(E, E.cy) THEN RowLen(E, E.cy) ELSE 0

CursorInBounds ==
    /\ ~E.ub
    /\ 0 <= E.cy /\ E.cy <= numrows(E)
    /\ 0 <= E.cx /\ E.cx <= CursorRowLen

\* C1: in every state reached from startup by key events (and an optional
\* file load), 0 <= cy <= numrows and 0 <= cx <= length of row cy, the line
\* past the end counting as empty, and no handler has indexed a row outside
\* [0, numrows).
C1_CursorInBounds == Running => CursorInBounds

\* The same on the terminals that leave at least one text row: there it
\* holds (specification Spec).
CursorInBoundsWithTextRows == (Running /\ E.screenrows >= 1) => CursorInBounds

\* The spec's expansion of tabs: each tab byte becomes the spaces that lead
\* to the next column that is a multiple of 8.
RECURSIVE ExpandTabs(_)
ExpandTabs(raw) ==
    IF raw = <<>> THEN <<>>
    ELSE LET before == ExpandTabs(SubSeq(raw, 1, Len(raw) - 1))
             b == raw[Len(raw)]
         IN  IF b = TAB
             THEN before \o Spaces(8 - (Len(before) % 8))
             ELSE Append(before, b)

\* C2: after every operation that changes a row's bytes, every row of the
\* buffer has render equal to its bytes with the tabs expanded to the next
\* multiple-of-8 column, and rsize equal to the length of that expansion.
C2_RenderIsExpansion ==
    \A i \in 1..numrows(E) :
        /\ E.row[i].render = ExpandTabs(E.row[i].chars)
        /\ E.row[i].rsize = Len(ExpandTabs(E.row[i].chars))

\* A buffer edited into two rows, one of them with a tab before a letter.
C2_Witness ==
    /\ Running
    /\ E.dirty # 0
    /\ numrows(E) = 2
    /\ \E i \in 1..2 : E.row[i].chars = <<TAB, 97>> /\ E.row[i].rsize = 9

\* C3: with screen_rows >= 1 and screen_cols >= 1, after every reconcile the
\* cursor lies in the window: row_offset <= cy < row_offset + screen_rows
\* and col_offset <= rx < col_offset + screen_cols.
C3_CursorInWindow ==
    (Running /\ E.screenrows >= 1 /\ E.screencols >= 1) =>
        /\ E.rowoffset <= E.cy /\ E.cy < E.rowoffset + E.screenrows
        /\ E.coloffset <= E.rx /\ E.rx < E.coloffset + E.screencols

\* The window has scrolled down and right, and the cursor sits on its last
\* row and last column.
C3_Witness ==
    /\ Running
    /\ E.rowoffset > 0 /\ E.coloffset > 0
    /\ E.cy = E.rowoffset + E.screenrows - 1
    /\ E.rx = E.coloffset + E.screencols - 1

\* A step in which a save wrote the file.
SavedStep ==
    /\ SaveNamed \/ PromptEnter
    /\ E'.statusmsg.kind = "written"

\* C4: between two states of the running editor, a step that changes the
\* rows leaves dirty set, and dirty goes from set to clear only in a step
\* that is a successful save (a load happens once, before any key, with
\* dirty clear); a failed or cancelled save, navigation and quit warnings
\* never clear it.
C4_Dirty ==
    [][(Running /\ Running') =>
          /\ (E'.row # E.row => E'.dirty # 0)
          /\ (E.dirty # 0 /\ E'.dirty = 0 => SavedStep)]_vars

\* An unnamed buffer was typed (dirty set) and then saved (dirty clear).
C4_Witness ==
    /\ pc = "loop"
    /\ argv = <<>>
    /\ numrows(E) > 0
    /\ E.dirty = 0
    /\ E.statusmsg.kind = "written"

\* A step in which editorProcessKeypress() read the quit chord.
QuitChord == QuitWarn \/ QuitExit

C6_QuitGuard ==
    [][/\ (QuitChord /\ E.dirty # 0 /\ quit_times > 0 =>
              /\ pc' = "loop" /\ exitcode' = -1
              /\ quit_times' = quit_times - 1
              /\ E'.statusmsg.kind = "WARNING")
       /\ (QuitChord /\ ~(E.dirty # 0 /\ quit_times > 0) =>
              pc' = "exit" /\ exitcode' = 0)
       /\ (Running /\ pc' = "exit" => QuitChord /\ (E.dirty = 0 \/ quit_times = 0))]_vars

\* The quit chord has been refused twice on a dirty buffer, and the file
\* was never written.
C6_Witness ==
    /\ pc = "loop"
    /\ E.dirty # 0
    /\ quit_times = 1
    /\ E.statusmsg = Msg("WARNING", <<2>>)
    /\ disk = NoFile

\* A step in which editorProcessKeypress() returned to the main loop: the
\* dispatch of one key of the main loop is over (for a save without a
\* filename, when its prompt has ended).
KeyDone == Running /\ pc' = "loop"

\* C7: every dispatched key other than the quit chord sets the counter back
\* to 3, and a quit chord that only warns never does: it takes one off.
C7_CounterReset ==
    [][KeyDone =>
          IF QuitWarn
          THEN quit_times' = quit_times - 1 /\ quit_times' < QUIT_TIMES
          ELSE quit_times' = QUIT_TIMES]_vars

\* A warning was shown and a later key put the counter back to 3.
C7_Witness ==
    /\ pc = "loop"
    /\ E.statusmsg.kind = "WARNING"
    /\ quit_times = QUIT_TIMES
    /\ E.dirty # 0

\* The lines of a file that ends in a newline, without their newlines.
RECURSIVE LinesOf(_)
LinesOf(content) ==
    IF content = <<>> THEN <<>>
    ELSE LET k == CHOOSE i \in 1..Len(content) :
                      content[i] = NL /\ \A j \in 1..(i - 1) : content[j] # NL
         IN  <<SubSeq(content, 1, k - 1)>> \o LinesOf(SubSeq(content, k + 1, Len(content)))

\* A file of newline-terminated lines without carriage returns.
PlainLines(content) ==
    /\ content # NoFile
    /\ content = <<>> \/ content[Len(content)] = NL
    /\ \A i \in 1..Len(content) : content[i] # CR

\* C8: loading a file of N newline-terminated lines without carriage
\* returns gives N rows, row i equal to line i, and the serialised buffer
\* equals the file.
C8_LoadRoundTrip ==
    [][(pc = "start" /\ pc' = "loop" /\ argv # <<>> /\ PlainLines(disk)) =>
          /\ [i \in 1..numrows(E') |-> E'.row[i].chars] = LinesOf(disk)
          /\ editorRowsToString(E') = disk]_vars

\* The spec's serialisation: each row's bytes followed by one newline, in
\* row order.
RECURSIVE Serialized(_)
Serialized(rows) ==
    IF rows = <<>> THEN <<>>
    ELSE Serialized(SubSeq(rows, 1, Len(rows) - 1)) \o rows[Len(rows)].chars \o <<NL>>

\* C9: a successful save writes each row's bytes followed by a newline and
\* leaves dirty clear, rows, cursor and filename as they were (the filename
\* just entered, when the save asked for one); a successful save that
\* follows a successful save with no edit between writes the same bytes.
C9_SaveTwice ==
    [][SavedStep =>
          /\ disk' = Serialized(E.row)
          /\ E'.dirty = 0
          /\ E'.row = E.row /\ E'.cx = E.cx /\ E'.cy = E.cy
          /\ (E.filename # NULL => E'.filename = E.filename)
          /\ (E.statusmsg.kind = "written" /\ E.dirty = 0 =>
                disk' = disk /\ E'.filename = E.filename)]_vars

\* The state after a successful save of a buffer of two rows: a second save
\* from here is the case of the claim.
C9_Witness ==
    /\ pc = "loop"
    /\ E.statusmsg.kind = "written"
    /\ E.dirty = 0
    /\ numrows(E) = 2
    /\ disk = Serialized(E.row)
    /\ ENABLED SaveNamed

\* C10: ESC O H (capital letter O) decodes to Home and ESC O F to End, as
\* ESC [ H and ESC [ F do.
C10_EscOHomeEnd ==
    /\ (seq = <<ESC, 79, 72>> => key = HOME_KEY)
    /\ (seq = <<ESC, 79, 70>> => key = END_KEY)
    /\ (seq = <<ESC, 91, 72>> => key = HOME_KEY)
    /\ (seq = <<ESC, 91, 70>> => key = END_KEY)

\* The spec's table for a sequence q that starts ESC [.
CsiKey(q) ==
    CASE q = <<ESC, 91, 65>> -> ARROW_UP
      [] q = <<ESC, 91, 66>> -> ARROW_DOWN
      [] q = <<ESC, 91, 67>> -> ARROW_RIGHT
      [] q = <<ESC, 91, 68>> -> ARROW_LEFT
      [] q = <<ESC, 91, 72>> -> HOME_KEY
      [] q = <<ESC, 91, 70>> -> END_KEY
      [] q \in {<<ESC, 91, 49, 126>>, <<ESC, 91, 55, 126>>} -> HOME_KEY
      [] q = <<ESC, 91, 51, 126>> -> DEL_KEY
      [] q \in {<<ESC, 91, 52, 126>>, <<ESC, 91, 56, 126>>} -> END_KEY
      [] q = <<ESC, 91, 53, 126>> -> PAGE_UP
      [] q = <<ESC, 91, 54, 126>> -> PAGE_DOWN
      [] OTHER -> ESC

ShortRead(q) ==
    /\ q[1] = ESC
    /\ \/ Len(q) < 3
       \/ Len(q) = 3 /\ q[2] = 91 /\ q[3] \in 48..57

\* C12: a call whose read times out after ESC, before the sequence is
\* complete, returns a bare escape, ends neither the process nor the loop,
\* and consumes what it read; a call that finds a byte other than ESC first
\* returns that byte alone whatever the call before it read, so the rest of
\* a sequence cut by a timeout is decoded as fresh input.
C12_TimeoutGivesEscape ==
    [][ReadKeyCall =>
          /\ pc' = "loop" /\ exitcode' = -1
          /\ (ShortRead(inq) => key' = ESC /\ inq' = <<>>)
          /\ (inq[1] # ESC => key' = inq[1] /\ seq' = <<inq[1]>> /\ inq' = Tail(inq))]_vars

\* The call that read ESC [ timed out and returned a bare escape; the H
\* that completes the sequence arrived afterwards and waits for the next
\* call.
C12_Witness ==
    /\ key = ESC
    /\ seq = <<ESC, 91>>
    /\ inq = <<72>>

\* The raw bytes of the rows of e, in order.
RawRows(e) == [i \in 1..numrows(e) |-> e.row[i].chars]

\* An editor whose buffer holds the rows texts, with the cursor at (cx, cy).
BufferOf(texts, cx, cy) ==
    [ZeroE EXCEPT
        !.row = [i \in 1..Len(texts) |->
                    [chars |-> texts[i], render |-> ExpandTabs(texts[i]),
                     rsize |-> Len(ExpandTabs(texts[i]))]],
        !.cx = cx, !.cy = cy]

\* "hello", "world", "ab".
Hello == <<104, 101, 108, 108, 111>>
World == <<119, 111, 114, 108, 100>>
Ab == <<97, 98>>

\* ["hello", "world"] with the cursor at (5, 0), after Enter.
EnterExample ==
    LET e == editorInsertNewLine(BufferOf(<<Hello, World>>, 5, 0))
    IN  RawRows(e) = <<Hello, <<>>, World>> /\ e.cx = 0 /\ e.cy = 1

\* C13: Enter with the cursor at (cx, cy) on a buffer row leaves the first
\* cx bytes of row cy in row cy, puts the remaining bytes in a new row
\* cy + 1, keeps every other row in order, adds exactly one row and puts
\* the cursor at (0, cy + 1); at column 0 that is an empty row before the
\* current one; ["hello", "world"] with the cursor at (5, 0) becomes
\* ["hello", "", "world"] with the cursor at (0, 1).
C13_EnterSplits ==
    [][/\ EnterExample
       /\ (EditKey(CR) /\ E.cy < numrows(E)) =>
             LET old == RawRows(E)
                 new == RawRows(E')
                 r == E.cy + 1
             IN  /\ Len(new) = Len(old) + 1
                 /\ new[r] = SubSeq(old[r], 1, E.cx)
                 /\ new[r + 1] = SubSeq(old[r], E.cx + 1, Len(old[r]))
                 /\ \A i \in 1..(r - 1) : new[i] = old[i]
                 /\ \A i \in (r + 1)..Len(old) : new[i + 1] = old[i]
                 /\ E'.cx = 0 /\ E'.cy = E.cy + 1]_vars

\* A row was split in its middle with a row before it and a row after it:
\* the buffer holds one row more than were inserted, and the cursor is at
\* the start of the third.
C13_Witness ==
    /\ pc = "loop"
    /\ numrows(E) = MaxOpRows + 1
    /\ E.cx = 0 /\ E.cy = 2
    /\ E.row[2].chars # <<>> /\ E.row[3].chars # <<>>
    /\ E.row[1].chars # <<>> /\ E.row[4].chars # <<>>

\* A step in which the main loop read Backspace (or Ctrl-H, the same case).
BackspaceStep == EditKey(BACKSPACE) \/ EditKey(CTRL_KEY(104))

\* ["ab"] with the cursor at (2, 0): after three Backspaces the buffer is
\* [""] with the cursor at (0, 0), and a fourth changes nothing.
BackspaceExample ==
    LET e3 == editorDelChar(editorDelChar(editorDelChar(BufferOf(<<Ab>>, 2, 0))))
    IN  /\ RawRows(e3) = <<<<>>>> /\ e3.cx = 0 /\ e3.cy = 0
        /\ editorDelChar(e3) = e3

\* C14: Backspace with cx > 0 removes the byte at index cx - 1 of row cy
\* and moves the cursor to (cx - 1, cy); with cx = 0 and cy > 0 on a buffer
\* row it appends row cy to row cy - 1, removes row cy and puts the cursor
\* at (old length of row cy - 1, cy - 1); at (0, 0) it changes nothing;
\* ["ab"] with the cursor at (2, 0) is [""] with the cursor at (0, 0) after
\* three Backspaces, and a fourth is a no-op.
C14_Backspace ==
    [][/\ BackspaceExample
       /\ BackspaceStep =>
             LET old == RawRows(E)
                 new == RawRows(E')
                 r == E.cy + 1
             IN  /\ (E.cx > 0 =>
                       /\ Len(new) = Len(old)
                       /\ new[r] = SubSeq(old[r], 1, E.cx - 1)
                                      \o SubSeq(old[r], E.cx + 1, Len(old[r]))
                       /\ \A i \in 1..Len(old) : i # r => new[i] = old[i]
                       /\ E'.cx = E.cx - 1 /\ E'.cy = E.cy)
                 /\ (E.cx = 0 /\ E.cy > 0 /\ E.cy < numrows(E) =>
                       /\ Len(new) = Len(old) - 1
                       /\ new[r - 1] = old[r - 1] \o old[r]
                       /\ \A i \in 1..(r - 2) : new[i] = old[i]
                       /\ \A i \in (r + 1)..Len(old) : new[i - 1] = old[i]
                       /\ E'.cx = Len(old[r - 1]) /\ E'.cy = E.cy - 1)
                 /\ (E.cx = 0 /\ E.cy = 0 =>
                       new = old /\ E'.cx = 0 /\ E'.cy = 0)]_vars

\* Two rows were joined: the cursor stands inside a row longer than any
\* row inserted, where the first of the two ended.
C14_Witness ==
    /\ pc = "loop"
    /\ E.cy < numrows(E)
    /\ Len(E.row[E.cy + 1].chars) > MaxRowLen
    /\ 0 < E.cx /\ E.cx < Len(E.row[E.cy + 1].chars)
    /\ E.dirty # 0

\* A text without its last byte, if it has one.
DropLast(t) == IF t = <<>> THEN <<>> ELSE SubSeq(t, 1, Len(t) - 1)

\* C15: the text the prompt shows in the status line is the keys typed so
\* far applied in order to the empty string (a literal byte appends,
\* Backspace/Delete/Ctrl-H removes the last byte if any, other keys change
\* nothing), Enter returns only when that text is not empty, and what it
\* returns is that text.
C15_PromptText ==
    [][/\ (SaveAsk => E'.statusmsg = Msg("Save as", <<>>))
       /\ (PromptErase => E'.statusmsg = Msg("Save as", DropLast(E.statusmsg.arg)))
       /\ (\A c \in PromptKeys :
              PromptType(c) => E'.statusmsg = Msg("Save as", Append(E.statusmsg.arg, c)))
       /\ (\A c \in PromptKeys : PromptIgnore(c) => E'.statusmsg = E.statusmsg)
       /\ (PromptEnter => E.statusmsg.arg # <<>> /\ E'.filename = E.statusmsg.arg)]_vars

\* C16: once raw mode has been entered, the process never ends, whether by
\* the confirmed quit, by die() or by a terminating signal, with the
\* terminal still in raw mode: the attributes saved at entry are restored
\* first.
C16_TerminalRestored == pc = "exit" => term.mode # "raw"

\* The same without signals: every end through exit() restores the
\* terminal (it holds in specification Spec).
TerminalRestoredAtExit == (pc = "exit" /\ exitcode \in {0, 1}) => term.mode # "raw"

\* The arguments of the editorInsertRow() calls.
InsertAts == -1..(MaxOpRows + 1)

\* at brought into [0, n].
Clamp(at, n) == IF at < 0 THEN 0 ELSE IF at > n THEN n ELSE at

\* C17 as the spec has it: insert_row(at, bytes) with at outside
\* [0, length] clamps at into [0, length] and still inserts the row, so
\* every call adds one row and marks the buffer dirty.
C17_InsertRowClamps ==
    (pc = "loop" /\ ~E.ub) =>
        \A at \in InsertAts, s \in RowTexts :
            LET e == editorInsertRow(E, at, s)
            IN  /\ RawRows(e) = InsertAt(RawRows(E), Clamp(at, numrows(E)), s)
                /\ numrows(e) = numrows(E) + 1
                /\ e.dirty # 0

\* C17 amended: insert_row(at, bytes) with at in [0, length] inserts the
\* row at index at, adds exactly one row and marks the buffer dirty; with at
\* outside [0, length] it does nothing: rows, row count and dirty stay as
\* they were.
C17_InsertRowIgnores ==
    (pc = "loop" /\ ~E.ub) =>
        \A at \in InsertAts, s \in RowTexts :
            LET e == editorInsertRow(E, at, s)
            IN  IF 0 <= at /\ at <= numrows(E)
                THEN /\ RawRows(e) = InsertAt(RawRows(E), at, s)
                     /\ numrows(e) = numrows(E) + 1
                     /\ e.dirty # 0
                ELSE e = E

\* A buffer of two rows, on which editorInsertRow() with an index below 0
\* and with one above the row count returns at once.
C17_Witness ==
    /\ pc = "loop"
    /\ numrows(E) = 2
    /\ E.dirty # 0
    /\ editorInsertRow(E, -1, <<97>>) = E
    /\ editorInsertRow(E, 3, <<97>>) = E

\* A step in which a save failed with an I/O error.
FailedSaveStep ==
    /\ SaveNamed \/ PromptEnter
    /\ E'.statusmsg.kind # "written"

\* Rows, cursor and dirty are left as they were.
BufferKept ==
    /\ E'.row = E.row
    /\ E'.cx = E.cx /\ E'.cy = E.cy
    /\ E'.dirty = E.dirty

\* C18: a save cancelled with Escape in the save-as prompt, or failed with
\* an I/O error, leaves rows, cursor and dirty as they were, leaves a status
\* message that reports it, and returns to the main loop without exiting;
\* after a cancelled prompt the filename is still unset, and a Save chord
\* with the filename unset opens the prompt.
C18_SaveFailureKeepsBuffer ==
    [][/\ (PromptCancel =>
              /\ BufferKept
              /\ E'.statusmsg = Msg("Save aborted", <<>>)
              /\ E'.filename = NULL
              /\ pc' = "loop" /\ exitcode' = -1)
       /\ (FailedSaveStep =>
              /\ BufferKept
              /\ E'.statusmsg = Msg("Can't save", <<>>)
              /\ pc' = "loop" /\ exitcode' = -1)
       /\ ((SaveNamed \/ SaveAsk) /\ E.filename = NULL =>
              pc' = "prompt" /\ E'.statusmsg.kind = "Save as")]_vars

\* A prompt was cancelled on a buffer with unsaved rows: the editor is back
\* in its main loop with the message, the rows still dirty and no filename.
C18_Witness ==
    /\ pc = "loop"
    /\ E.statusmsg.kind = "Save aborted"
    /\ E.filename = NULL
    /\ E.dirty # 0
    /\ numrows(E) > 0
    /\ ENABLED SaveAsk

\* A step that ends the process through exit().
ExitStep == pc # "exit" /\ pc' = "exit" /\ exitcode' # -2

\* The spec's fatal events: tcgetattr() fails, the geometry query fails, a
\* read() fails with an error other than the timeout.
FatalTier == StartNoTerm \/ StartNoSize \/ ReadFail

C20_CxToRx ==
    /\ \A i \in 1..numrows(E) :
          LET chars == E.row[i].chars
              len == Len(chars)
          IN  /\ \A a \in 0..len, b \in 0..len :
                    a <= b => editorRowCxToRx(chars, a) <= editorRowCxToRx(chars, b)
              /\ (\A k \in 1..len : chars[k] # TAB) =>
                    \A cx \in 0..len : editorRowCxToRx(chars, cx) = cx
              /\ editorRowCxToRx(chars, len) = Len(E.row[i].render)
              /\ E.row[i].rsize = Len(E.row[i].render)
    /\ (pc = "loop" /\ ~E.ub /\ E.cy < numrows(E)) =>
          0 <= E.rx /\ E.rx <= E.row[E.cy + 1].rsize

\* The cursor stands at the end of a row that holds a tab after a letter
\* and a letter after the tab: column 9 of a render of 9 bytes.
C20_Witness ==
    /\ pc = "loop"
    /\ E.cy < numrows(E)
    /\ E.row[E.cy + 1].chars = <<97, TAB, 97>>
    /\ E.cx = 3
    /\ E.rx = 9

\* The rx the spec gives the cursor: the render column of cx on a buffer
\* row, 0 on the line past the last row.
SpecRx == IF ValidRow(E, E.cy) THEN editorRowCxToRx(E.row[E.cy + 1].chars, E.cx) ELSE 0

\* C21: after every editorScroll(), in every state reachable by key events,
\* rx is editorRowCxToRx(row cy, cx) when the cursor is on a buffer row and
\* 0 when it is on the line past the last row.
C21_RxReconciled == (Running /\ ~E.ub) => E.rx = SpecRx

\* The same on the terminals that leave at least one text row: there it
\* holds (specification Spec).
RxReconciledWithTextRows == (Running /\ E.screenrows >= 1) => (~E.ub /\ E.rx = SpecRx)

Arrows == {ARROW_LEFT, ARROW_RIGHT, ARROW_UP, ARROW_DOWN}

\* The length of row r of e, the line past the last row counting as empty.
LenAt(e, r) == IF ValidRow(e, r) THEN RowLen(e, r) ELSE 0

\* The cursor <<cx, cy>> the arrow rule gives from the cursor of e.
ArrowRule(e, k) ==
    LET up == IF e.cy > 0 THEN e.cy - 1 ELSE 0
        down == IF e.cy < numrows(e) THEN e.cy + 1 ELSE numrows(e)
    IN  CASE k = ARROW_LEFT ->
                IF e.cx > 0 THEN <<e.cx - 1, e.cy>>
                ELSE IF e.cy > 0 THEN <<LenAt(e, e.cy - 1), e.cy - 1>>
                ELSE <<0, 0>>
          [] k = ARROW_RIGHT ->
                IF e.cy = numrows(e) THEN <<e.cx, e.cy>>
                ELSE IF e.cx < LenAt(e, e.cy) THEN <<e.cx + 1, e.cy>>
                ELSE <<0, e.cy + 1>>
          [] k = ARROW_UP -> <<Min(e.cx, LenAt(e, up)), up>>
          [] k = ARROW_DOWN -> <<Min(e.cx, LenAt(e, down)), down>>

\* C22: Left with cx > 0 gives (cx - 1, cy), at cx = 0 with cy > 0 the end
\* of row cy - 1, at (0, 0) no change; Right with cx < length gives
\* (cx + 1, cy), at the end of a buffer row (0, cy + 1), on the line past the
\* last row no change; Up and Down change cy by one within [0, numrows] and
\* then cut cx to the length of the new row.
C22_ArrowKeys ==
    (pc = "loop" /\ ~E.ub) =>
        \A k \in Arrows :
            LET e1 == editorRefreshScreen(Dispatch(E, k))
            IN  ~e1.ub /\ <<e1.cx, e1.cy>> = ArrowRule(E, k)

\* The cursor is at the end of a row that has a shorter row above it and a
\* shorter row below it, and a byte to its left: Left steps, Right wraps,
\* Up and Down cut cx.
C22_Witness ==
    /\ pc = "loop" /\ ~E.ub
    /\ E.cy >= 1 /\ E.cy + 1 < numrows(E)
    /\ E.cx = LenAt(E, E.cy) /\ E.cx > LenAt(E, E.cy - 1)
    /\ LenAt(E, E.cy - 1) > LenAt(E, E.cy + 1)

\* The cursor of e moved as the arrow rule says.
ApplyRule(e, k) ==
    LET c == ArrowRule(e, k) IN [e EXCEPT !.cx = c[1], !.cy = c[2]]

\* The arrow rule applied n times.
RECURSIVE RuleTimes(_, _, _)
RuleTimes(e, k, n) == IF n <= 0 THEN e ELSE RuleTimes(ApplyRule(e, k), k, n - 1)

\* What the claim says of one page key pressed in the state e: the cursor
\* after the key is the cursor of the snap followed by screenrows arrow
\* steps, its cy is the closed form, and its cx is inside the final row.
PageRule(e, k) ==
    LET e1 == editorRefreshScreen(Dispatch(e, k))
        bottom == Min(numrows(e), e.rowoffset + e.screenrows - 1)
        snap == IF k = PAGE_UP THEN e.rowoffset ELSE bottom
        arrow == IF k = PAGE_UP THEN ARROW_UP ELSE ARROW_DOWN
        byRule == RuleTimes([e EXCEPT !.cy = snap], arrow, e.screenrows)
        closed == IF k = PAGE_UP
                  THEN (IF e.rowoffset - e.screenrows > 0
                        THEN e.rowoffset - e.screenrows ELSE 0)
                  ELSE Min(numrows(e), e.rowoffset + 2 * e.screenrows - 1)
    IN  /\ ~e1.ub
        /\ <<e1.cx, e1.cy>> = <<byRule.cx, byRule.cy>>
        /\ e1.cy = closed
        /\ e1.cx <= LenAt(e1, e1.cy)

\* C23: PageUp and PageDown set cy to the top row of the viewport,
\* respectively the bottom row capped at numrows, and then apply the Up,
\* respectively Down, arrow rule screenrows times; cy ends at
\* max(0, rowoffset - screenrows), respectively
\* min(numrows, rowoffset + 2 * screenrows - 1), and cx is never larger than
\* the length of the final row.
C23_PageKeys ==
    (pc = "loop" /\ ~E.ub /\ CursorInBounds) =>
        (PageRule(E, PAGE_UP) /\ PageRule(E, PAGE_DOWN))

\* The same on the terminals that leave at least one text row: there it
\* holds (specification Spec).
PageKeysWithTextRows ==
    (pc = "loop" /\ E.screenrows >= 1) =>
        (PageRule(E, PAGE_UP) /\ PageRule(E, PAGE_DOWN))

\* The rows of e without the byte at index cx of row cy.
WithoutByte(e) ==
    LET old == RawRows(e)
        r == e.cy + 1
    IN  [old EXCEPT ![r] = SubSeq(old[r], 1, e.cx) \o SubSeq(old[r], e.cx + 2, Len(old[r]))]

\* The rows of e with row cy + 1 joined onto row cy.
WithNextJoined(e) ==
    LET old == RawRows(e)
        r == e.cy + 1
    IN  [i \in 1..(Len(old) - 1) |->
            IF i < r THEN old[i]
            ELSE IF i = r THEN old[r] \o old[r + 1]
            ELSE old[i + 1]]

\* The rows the Delete key leaves when pressed in e.
DeleteRows(e) ==
    IF e.cy < numrows(e) /\ e.cx < LenAt(e, e.cy) THEN WithoutByte(e)
    ELSE IF e.cy + 1 < numrows(e) THEN WithNextJoined(e)
    ELSE RawRows(e)

\* The cursor is at the end of the last row.
AtEndOfLastRow(e) == e.cy + 1 = numrows(e) /\ e.cx = LenAt(e, e.cy)

CaseKeys ==
    {CR, CTRL_KEY(113), CTRL_KEY(115), PAGE_UP, PAGE_DOWN, HOME_KEY, END_KEY,
     BACKSPACE, CTRL_KEY(104), DEL_KEY, CTRL_KEY(108), ESC} \cup Arrows

\* The keys read that fall through to the default case.
LiteralKeys == Keys \ CaseKeys

\* What the claim says of the key c pressed in the state e.
InsertRule(e, c) ==
    LET e1 == editorRefreshScreen(Dispatch(e, c))
        old == IF e.cy = numrows(e) THEN Append(RawRows(e), <<>>) ELSE RawRows(e)
        new == RawRows(e1)
        r == e.cy + 1
    IN  /\ ~e1.ub
        /\ Len(new) = Len(old)
        /\ numrows(e1) = IF e.cy = numrows(e) THEN numrows(e) + 1 ELSE numrows(e)
        /\ new[r] = SubSeq(old[r], 1, e.cx) \o <<c>> \o SubSeq(old[r], e.cx + 1, Len(old[r]))
        /\ \A i \in 1..Len(old) : i # r => new[i] = old[i]
        /\ e1.cx = e.cx + 1 /\ e1.cy = e.cy

\* C25: a key that falls through to literal insertion, pressed with the
\* cursor at (cx, cy), inserts exactly that byte at index cx of row cy,
\* leaves every other byte and row unchanged and moves the cursor to
\* (cx + 1, cy); on the line past the last row it first appends one new row,
\* so the row count grows by one there and is unchanged otherwise.
C25_LiteralInsert ==
    (pc = "loop" /\ CursorInBounds) => \A c \in LiteralKeys : InsertRule(E, c)

\* A tab was typed in front of a letter, in the first of two rows: the
\* cursor stands after the tab.
C25_Witness ==
    /\ pc = "loop" /\ CursorInBounds
    /\ LiteralKeys # {}
    /\ numrows(E) = 2
    /\ E.row[1].chars = <<TAB, 97>>
    /\ E.cy = 0 /\ E.cx = 1
    /\ E.dirty > 0

\* Enter and then Backspace, pressed in the state e, give back the rows and
\* the cursor of e.
EnterBackspaceRestores(e) ==
    LET e1 == editorRefreshScreen(Dispatch(e, CR))
        e2 == editorRefreshScreen(Dispatch(e1, BACKSPACE))
    IN  /\ ~e2.ub
        /\ RawRows(e2) = RawRows(e)
        /\ e2.cx = e.cx /\ e2.cy = e.cy

\* C26: in every reachable state with the cursor on a buffer row
\* (cy < numrows), pressing Enter and then Backspace restores the rows and
\* the cursor (cx, cy) exactly; only dirty may differ.
C26_EnterThenBackspace ==
    (pc = "loop" /\ ~E.ub /\ E.cy < numrows(E)) => EnterBackspaceRestores(E)

\* The same on the terminals that leave at least one text row: there it
\* holds (specifications Spec and SpecRowOps).
EnterThenBackspaceWithTextRows ==
    (pc = "loop" /\ E.screenrows >= 1 /\ E.cy < numrows(E)) =>
        (~E.ub /\ EnterBackspaceRestores(E))

\* The keys the claim names: the arrows, Home, End, PageUp, PageDown, the
\* bare Escape the decoder returns for every sequence it does not
\* recognize, and Ctrl-L.
NonEditingKeys ==
    Arrows \cup {HOME_KEY, END_KEY, PAGE_UP, PAGE_DOWN, ESC, CTRL_KEY(108)}

\* e without its cursor and scroll fields.
Frame(e) == [e EXCEPT !.cx = 0, !.cy = 0, !.rx = 0, !.rowoffset = 0, !.coloffset = 0]

\* The key k pressed in e changes at most the cursor and the scroll
\* offsets, and reads no row out of range.
OnlyMoves(e, k) ==
    LET e1 == editorRefreshScreen(Dispatch(e, k))
    IN  ~e1.ub /\ Frame(e1) = Frame(e)

\* C27: the keys that are not editing keys (the four arrows, Home, End,
\* PageUp, PageDown, bare Escape, Ctrl-L) leave the rows, the row count,
\* dirty and the filename unchanged in every reachable state; only the
\* cursor and the scroll offsets may change.
C27_NonEditingKeys ==
    (pc = "loop" /\ ~E.ub) => \A k \in NonEditingKeys : OnlyMoves(E, k)

\* The same on the terminals that leave at least one text row: there it
\* holds (specifications Spec and SpecRowOps).
NonEditingKeysWithTextRows ==
    (pc = "loop" /\ E.screenrows >= 1) =>
        (~E.ub /\ \A k \in NonEditingKeys : OnlyMoves(E, k))

====
